---------------------------- MODULE Spec2Model ----------------------------
(***************************************************************************)
(* A model of the ID-set codec of src/src/roc.rs (RocCompressor): the      *)
(* varint primitive, compress_set / decompress_set and the two analytic    *)
(* estimators, with the caller that holds a payload between calls.         *)
(*                                                                         *)
(* Machine integers.  TLC's integers are 32-bit signed, the program's are  *)
(* u32 and u64, and several properties are about the top of those ranges.  *)
(* A u32 is therefore a pair and a u64 a 4-tuple of 16-bit limbs, least    *)
(* significant limb first; the arithmetic below is the machine's, limb by  *)
(* limb.  A usize that only ever counts bytes or elements of a bounded     *)
(* buffer is a plain integer.                                              *)
(***************************************************************************)
EXTENDS Integers, Sequences, FiniteSets, TLC

VARIABLES
    self,             \* the compressor value: [ans_precision |-> u32]
    overflow_checks,  \* build profile: TRUE = debug (overflow panics), FALSE = release (wraps)
    call,             \* the most recent call of an operation: the compressor it was
                      \* made on, its arguments and its result
    held,             \* the caller's copy of the last compress_set call (ids, universe, payload)
    prev,             \* an earlier call the caller remembers (determinism specification only)
    input             \* the arguments the caller has prepared for its next call

vars == <<self, overflow_checks, call, held, prev, input>>

----------------------------------------------------------------------------
(* 16-bit limbs *)

LIMB == 2^16

U32(lo, hi) == <<lo, hi>>
U64(l0, l1, l2, l3) == <<l0, l1, l2, l3>>

\* `n as u32` / `n as u64` for a small non-negative integer n < 2^16
SmallU32(n) == <<n, 0>>
SmallU64(n) == <<n, 0, 0, 0>>

\* `x as u64` for x: u32
AsU64(x) == <<x[1], x[2], 0, 0>>

\* `v as u32` for v: u64 (truncation to the low 32 bits)
AsU32(v) == <<v[1], v[2]>>

\* `v as u8` for v: u64 (truncation to the low 8 bits)
AsU8(v) == v[1] % 256

Lt32(a, b) == a[2] < b[2] \/ (a[2] = b[2] /\ a[1] < b[1])
Le32(a, b) == a = b \/ Lt32(a, b)
Ge32(a, b) == ~Lt32(a, b)

Lt64(a, b) == \E i \in 1..4 : a[i] < b[i] /\ \A j \in (i+1)..4 : a[j] = b[j]
Ge64(a, b) == ~Lt64(a, b)

\* a + b on u32: the wrapped sum and whether it overflowed
Add32(a, b) ==
    LET lo == a[1] + b[1]
        hi == a[2] + b[2] + (lo \div LIMB)
    IN  [val |-> <<lo % LIMB, hi % LIMB>>, overflow |-> hi >= LIMB]

\* a - b on u32, wrapped (the callers below only subtract a smaller value)
Sub32(a, b) ==
    LET borrow == IF a[1] < b[1] THEN 1 ELSE 0
        lo == a[1] + borrow * LIMB - b[1]
        hi == (a[2] + LIMB - b[2] - borrow) % LIMB
    IN  <<lo, hi>>

RECURSIVE BitOr(_, _)
BitOr(a, b) ==
    IF a = 0 THEN b
    ELSE IF b = 0 THEN a
    ELSE (IF a % 2 = 1 \/ b % 2 = 1 THEN 1 ELSE 0) + 2 * BitOr(a \div 2, b \div 2)

RECURSIVE BitAnd(_, _)
BitAnd(a, b) ==
    IF a = 0 \/ b = 0 THEN 0
    ELSE (IF a % 2 = 1 /\ b % 2 = 1 THEN 1 ELSE 0) + 2 * BitAnd(a \div 2, b \div 2)

\* v >> 7 on u64
Shr7(v) ==
    [i \in 1..4 |-> (v[i] \div 128) + (IF i < 4 THEN (v[i+1] % 128) * 512 ELSE 0)]

\* v << s on u64, 0 <= s < 64 (bits shifted past bit 63 are lost)
Shl64(v, s) ==
    LET q == s \div 16
        r == s % 16
        limb(i) == IF i >= 1 THEN v[i] ELSE 0
    IN  [i \in 1..4 |->
            ((limb(i - q) * 2^r) % LIMB) + ((limb(i - q - 1) * 2^r) \div LIMB)]

\* a | b on u64
Or64(a, b) == [i \in 1..4 |-> BitOr(a[i], b[i])]

----------------------------------------------------------------------------
(* Results: Rust's Result<T, CompressionError>, and a panic (abnormal abort) *)

Ok(v) == [tag |-> "Ok", value |-> v]
Err(kind, msg) == [tag |-> "Err", kind |-> kind, msg |-> msg]
Panic(msg) == [tag |-> "Panic", msg |-> msg]

IsOk(r) == r.tag = "Ok"
IsErr(r, kind) == r.tag = "Err" /\ r.kind = kind

----------------------------------------------------------------------------
(* RocCompressor *)

DefaultPrecision == 4096

new == [ans_precision |-> DefaultPrecision]

with_precision(precision) == [ans_precision |-> precision]

\* validate_range comparing with < where the code compares with <=
RECURSIVE validate_range_lt(_, _, _)
validate_range_lt(ids, lo, hi) ==
    IF hi <= lo THEN Ok(<<>>)
    ELSE IF hi = lo + 1
    THEN IF Lt32(ids[lo + 1], ids[lo])
         THEN Err("InvalidInput", "IDs must be sorted and unique")
         ELSE Ok(<<>>)
    ELSE LET mid == (lo + hi) \div 2
             left == validate_range_lt(ids, lo, mid)
         IN  IF ~IsOk(left) THEN left ELSE validate_range_lt(ids, mid, hi)

(* Loops over a whole buffer are unrolled by halving the index range, in    *)
(* the loop's own order (left half first, its exit taken before the right   *)
(* half is entered), so that a long buffer does not nest one evaluation per *)
(* element.                                                                 *)

\* for i in lo..hi { if ids[i] <= ids[i-1] { return Err } }   (0-based i)
RECURSIVE validate_range(_, _, _)
validate_range(ids, lo, hi) ==
    IF hi <= lo THEN Ok(<<>>)
    ELSE IF hi = lo + 1
    THEN IF Le32(ids[lo + 1], ids[lo])
         THEN Err("InvalidInput", "IDs must be sorted and unique")
         ELSE Ok(<<>>)
    ELSE LET mid == (lo + hi) \div 2
             left == validate_range(ids, lo, mid)
         IN  IF ~IsOk(left) THEN left ELSE validate_range(ids, mid, hi)

validate_ids(ids) ==
    IF ids = <<>> THEN Ok(<<>>) ELSE validate_range(ids, 1, Len(ids))

\* encode_varint looping while val > 0x80 where the code loops while val >= 0x80
RECURSIVE encode_varint_gt(_, _)
encode_varint_gt(value, buf) ==
    IF Lt64(SmallU64(128), value)
    THEN encode_varint_gt(Shr7(value), Append(buf, BitOr(AsU8(value), 128)))
    ELSE Append(buf, AsU8(value))

\* while val >= 0x80 { push((val as u8) | 0x80); val >>= 7 } push(val as u8)
RECURSIVE encode_varint(_, _)
encode_varint(value, buf) ==
    IF Ge64(value, SmallU64(128))
    THEN encode_varint(Shr7(value), Append(buf, BitOr(AsU8(value), 128)))
    ELSE Append(buf, AsU8(value))

\* decode_varint advancing shift by 8 where the code advances it by 7
RECURSIVE decode_loop_shift8(_, _, _, _)
decode_loop_shift8(buf, value, shift, offset) ==
    IF offset >= Len(buf)
    THEN Err("DecompressionFailed", "Unexpected end of compressed data")
    ELSE IF shift > 56
    THEN Err("DecompressionFailed", "Varint encoding too large")
    ELSE LET byte == buf[offset + 1]
             value2 == Or64(value, Shl64(SmallU64(BitAnd(byte, 127)), shift))
         IN  IF BitAnd(byte, 128) = 0
             THEN Ok(<<value2, offset + 1>>)
             ELSE decode_loop_shift8(buf, value2, shift + 8, offset + 1)

\* decode_varint refusing a byte only past shift 63, so that ten bytes are read
RECURSIVE decode_loop_shift63(_, _, _, _)
decode_loop_shift63(buf, value, shift, offset) ==
    IF offset >= Len(buf)
    THEN Err("DecompressionFailed", "Unexpected end of compressed data")
    ELSE IF shift > 63
    THEN Err("DecompressionFailed", "Varint encoding too large")
    ELSE LET byte == buf[offset + 1]
             value2 == Or64(value, Shl64(SmallU64(BitAnd(byte, 127)), shift))
         IN  IF BitAnd(byte, 128) = 0
             THEN Ok(<<value2, offset + 1>>)
             ELSE decode_loop_shift63(buf, value2, shift + 7, offset + 1)

\* The loop of decode_varint, entered with the locals (value, shift, offset).
RECURSIVE decode_loop(_, _, _, _)
decode_loop(buf, value, shift, offset) ==
    IF offset >= Len(buf)
    THEN Err("DecompressionFailed", "Unexpected end of compressed data")
    ELSE IF shift > 56
    THEN Err("DecompressionFailed", "Varint encoding too large")
    ELSE LET byte == buf[offset + 1]
             value2 == Or64(value, Shl64(SmallU64(BitAnd(byte, 127)), shift))
         IN  IF BitAnd(byte, 128) = 0
             THEN Ok(<<value2, offset + 1>>)
             ELSE decode_loop(buf, value2, shift + 7, offset + 1)

decode_varint(buf) == decode_loop(buf, SmallU64(0), 0, 0)

\* ids[lo..hi].iter().max()   (1-based, inclusive, non-empty)
RECURSIVE max_range(_, _, _)
max_range(ids, lo, hi) ==
    IF hi = lo THEN ids[lo]
    ELSE LET mid == (lo + hi) \div 2
             left == max_range(ids, lo, mid)
             right == max_range(ids, mid + 1, hi)
         IN  IF Lt32(left, right) THEN right ELSE left

max_id(ids) == max_range(ids, 1, Len(ids))

\* emit_deltas writing each id where the code writes its gap to the one before
RECURSIVE emit_deltas_absolute(_, _, _)
emit_deltas_absolute(ids, lo, hi) ==
    IF hi <= lo THEN <<>>
    ELSE IF hi = lo + 1
    THEN encode_varint(AsU64(ids[lo + 1]), <<>>)
    ELSE LET mid == (lo + hi) \div 2
         IN  emit_deltas_absolute(ids, lo, mid) \o emit_deltas_absolute(ids, mid, hi)

\* The bytes that `for i in lo..hi { encode_varint((ids[i] - ids[i-1]) as u64,
\* &mut encoded) }` pushes onto encoded   (0-based i)
RECURSIVE emit_deltas(_, _, _)
emit_deltas(ids, lo, hi) ==
    IF hi <= lo THEN <<>>
    ELSE IF hi = lo + 1
    THEN encode_varint(AsU64(Sub32(ids[lo + 1], ids[lo])), <<>>)
    ELSE LET mid == (lo + hi) \div 2
         IN  emit_deltas(ids, lo, mid) \o emit_deltas(ids, mid, hi)

\* compress_set without the early return for no ids: it writes the count 0
compress_set_counts_empty(this, ids, universe_size) ==
    LET valid == validate_ids(ids)
    IN  IF ~IsOk(valid) THEN valid
        ELSE IF ids = <<>> THEN Ok(encode_varint(SmallU64(0), <<>>))
        ELSE IF Ge32(max_id(ids), universe_size)
        THEN Err("InvalidInput", "ID exceeds universe size")
        ELSE LET counted == encode_varint(SmallU64(Len(ids)), <<>>)
                 first == encode_varint(AsU64(ids[1]), counted)
             IN  Ok(first \o emit_deltas(ids, 1, Len(ids)))

\* compress_set writing its ans_precision in front of the payload
compress_set_precision(this, ids, universe_size) ==
    LET valid == validate_ids(ids)
    IN  IF ~IsOk(valid) THEN valid
        ELSE IF ids = <<>> THEN Ok(<<>>)
        ELSE IF Ge32(max_id(ids), universe_size)
        THEN Err("InvalidInput", "ID exceeds universe size")
        ELSE LET header == encode_varint(SmallU64(this.ans_precision), <<>>)
                 counted == encode_varint(SmallU64(Len(ids)), header)
                 first == encode_varint(AsU64(ids[1]), counted)
             IN  Ok(first \o emit_deltas(ids, 1, Len(ids)))

compress_set(this, ids, universe_size) ==
    LET valid == validate_ids(ids)
    IN  IF ~IsOk(valid) THEN valid
        ELSE IF ids = <<>> THEN Ok(<<>>)
        ELSE IF Ge32(max_id(ids), universe_size)
        THEN Err("InvalidInput", "ID exceeds universe size")
        ELSE LET counted == encode_varint(SmallU64(Len(ids)), <<>>)
                 first == encode_varint(AsU64(ids[1]), counted)
             IN  Ok(first \o emit_deltas(ids, 1, Len(ids)))

\* &compressed[offset..]
slice_from(compressed, offset) == SubSeq(compressed, offset + 1, Len(compressed))

\* The state of the delta loop of decompress_set: its counter i, ids and
\* offset, and, once the function has returned, what it returned.
Looping(i, ids, offset) ==
    [done |-> FALSE, i |-> i, ids |-> ids, offset |-> offset]
Returned(result) == [done |-> TRUE, result |-> result]

\* decode_step without the test of the reconstructed id against universe_size
decode_step_unbounded(compressed, universe_size, num_ids, st) ==
    IF st.done THEN st
    ELSE IF Ge64(SmallU64(st.i), num_ids)
    THEN IF st.offset < Len(compressed)
         THEN Returned(Err("DecompressionFailed", "Extra data after decompression"))
         ELSE Returned(Ok(st.ids))
    ELSE LET d == decode_varint(slice_from(compressed, st.offset))
         IN  IF ~IsOk(d) THEN Returned(d)
             ELSE LET delta == d.value[1]
                      sum == Add32(st.ids[Len(st.ids)], AsU32(delta))
                  IN  IF sum.overflow /\ overflow_checks
                      THEN Returned(Panic("attempt to add with overflow"))
                      ELSE Looping(st.i + 1, Append(st.ids, sum.val),
                                   st.offset + d.value[2])

\* decode_step returning the ids read so far when a delta cannot be decoded
decode_step_partial(compressed, universe_size, num_ids, st) ==
    IF st.done THEN st
    ELSE IF Ge64(SmallU64(st.i), num_ids)
    THEN IF st.offset < Len(compressed)
         THEN Returned(Err("DecompressionFailed", "Extra data after decompression"))
         ELSE Returned(Ok(st.ids))
    ELSE LET d == decode_varint(slice_from(compressed, st.offset))
         IN  IF ~IsOk(d) THEN Returned(Ok(st.ids))
             ELSE LET delta == d.value[1]
                      sum == Add32(st.ids[Len(st.ids)], AsU32(delta))
                  IN  IF sum.overflow /\ overflow_checks
                      THEN Returned(Panic("attempt to add with overflow"))
                      ELSE IF Ge32(sum.val, universe_size)
                      THEN Returned(Err("DecompressionFailed", "ID exceeds universe size"))
                      ELSE Looping(st.i + 1, Append(st.ids, sum.val),
                                   st.offset + d.value[2])

\* decode_step leaving offset where it was after reading a delta
decode_step_stuck(compressed, universe_size, num_ids, st) ==
    IF st.done THEN st
    ELSE IF Ge64(SmallU64(st.i), num_ids)
    THEN IF st.offset < Len(compressed)
         THEN Returned(Err("DecompressionFailed", "Extra data after decompression"))
         ELSE Returned(Ok(st.ids))
    ELSE LET d == decode_varint(slice_from(compressed, st.offset))
         IN  IF ~IsOk(d) THEN Returned(d)
             ELSE LET delta == d.value[1]
                      sum == Add32(st.ids[Len(st.ids)], AsU32(delta))
                  IN  IF sum.overflow /\ overflow_checks
                      THEN Returned(Panic("attempt to add with overflow"))
                      ELSE IF Ge32(sum.val, universe_size)
                      THEN Returned(Err("DecompressionFailed", "ID exceeds universe size"))
                      ELSE Looping(st.i + 1, Append(st.ids, sum.val), st.offset)

\* One turn of `for _ in 1..num_ids { ... }`; when the range is exhausted, the
\* check that all data was consumed and the return.
decode_step(compressed, universe_size, num_ids, st) ==
    IF st.done THEN st
    ELSE IF Ge64(SmallU64(st.i), num_ids)
    THEN IF st.offset < Len(compressed)
         THEN Returned(Err("DecompressionFailed", "Extra data after decompression"))
         ELSE Returned(Ok(st.ids))
    ELSE LET d == decode_varint(slice_from(compressed, st.offset))
         IN  IF ~IsOk(d) THEN Returned(d)
             ELSE LET delta == d.value[1]
                      sum == Add32(st.ids[Len(st.ids)], AsU32(delta))
                  IN  IF sum.overflow /\ overflow_checks
                      THEN Returned(Panic("attempt to add with overflow"))
                      ELSE IF Ge32(sum.val, universe_size)
                      THEN Returned(Err("DecompressionFailed", "ID exceeds universe size"))
                      ELSE Looping(st.i + 1, Append(st.ids, sum.val),
                                   st.offset + d.value[2])

\* k >= 1 turns of the loop
RECURSIVE decode_steps(_, _, _, _, _)
decode_steps(compressed, universe_size, num_ids, st, k) ==
    IF k = 1 THEN decode_step(compressed, universe_size, num_ids, st)
    ELSE LET half == decode_steps(compressed, universe_size, num_ids, st, k \div 2)
         IN  IF half.done THEN half
             ELSE decode_steps(compressed, universe_size, num_ids, half, k - k \div 2)

\* The loop run until the function returns
RECURSIVE decode_deltas(_, _, _, _, _)
decode_deltas(compressed, universe_size, num_ids, st, k) ==
    LET after == decode_steps(compressed, universe_size, num_ids, st, k)
    IN  IF after.done THEN after.result
        ELSE decode_deltas(compressed, universe_size, num_ids, after, 2 * k)

\* The empty test and the decoding of the count: the function returns, or
\* stands in front of the first id with no id read (i = 0).
decode_count(compressed) ==
    IF compressed = <<>> THEN Returned(Ok(<<>>))
    ELSE LET n == decode_varint(slice_from(compressed, 0))
         IN  IF ~IsOk(n) THEN Returned(n)
             ELSE IF n.value[1] = SmallU64(0) THEN Returned(Ok(<<>>))
             ELSE Looping(0, <<>>, n.value[2])

\* num_ids, once the count has been decoded
declared_count(compressed) == decode_varint(slice_from(compressed, 0)).value[1]

\* The decoding of the first id: the function returns, or enters the loop.
decode_first(compressed, universe_size, st) ==
    LET f == decode_varint(slice_from(compressed, st.offset))
    IN  IF ~IsOk(f) THEN Returned(f)
        ELSE IF Ge64(f.value[1], AsU64(universe_size))
        THEN Returned(Err("DecompressionFailed", "ID exceeds universe size"))
        ELSE Looping(1, <<AsU32(f.value[1])>>, st.offset + f.value[2])

decompress_set(this, compressed, universe_size) ==
    LET c == decode_count(compressed)
    IN  IF c.done THEN c.result
        ELSE LET f == decode_first(compressed, universe_size, c)
             IN  IF f.done THEN f.result
                 ELSE decode_deltas(compressed, universe_size,
                                    declared_count(compressed), f, 1)

----------------------------------------------------------------------------
(* The estimators.  An f64 x >= 0 is kept as [is_zero |-> x = 0.0,          *)
(* floor |-> the integer part of x]: the two facts the code and its callers *)
(* read from it (`as usize`, a comparison with 0).  num_ids and             *)
(* universe_size are plain integers here, converted exactly by `as f64`.    *)
(* The logarithm is the exact one; f64 rounding can leave a value that is   *)
(* exactly integral one ulp low, which changes none of the zero tests.      *)

F64(is_zero, floor) == [is_zero |-> is_zero, floor |-> floor]

\* The largest k with 2^k <= (big / small)^n, i.e. floor(n * log2(big / small)),
\* for big > small >= 1.
RECURSIVE floor_log2(_, _, _)
floor_log2(numer, denom, k) ==
    IF 2 * denom <= numer THEN floor_log2(numer, 2 * denom, k + 1) ELSE k

theoretical_bits(num_ids, universe_size) ==
    IF num_ids = 0 THEN F64(TRUE, 0)
    ELSE IF num_ids > universe_size THEN F64(TRUE, 0)
    ELSE IF universe_size <= num_ids THEN F64(TRUE, 0)     \* ratio <= 1.0
    ELSE F64(FALSE, floor_log2(universe_size ^ num_ids, num_ids ^ num_ids, 0))

\* estimate_size without the per-id overhead term
estimate_size_no_overhead(this, num_ids, universe_size) ==
    IF num_ids = 0 THEN 0
    ELSE LET bits == theoretical_bits(num_ids, universe_size)
         IN  bits.floor \div 8

estimate_size(this, num_ids, universe_size) ==
    IF num_ids = 0 THEN 0
    ELSE LET bits == theoretical_bits(num_ids, universe_size)
             varint_overhead == (num_ids * 3) \div 2
         IN  (bits.floor \div 8) + varint_overhead

bits_per_id(this, num_ids, universe_size) ==
    IF num_ids = 0 THEN F64(TRUE, 0)
    ELSE LET bits == theoretical_bits(num_ids, universe_size)
         IN  F64(bits.is_zero, bits.floor \div num_ids)

----------------------------------------------------------------------------
(* Inputs *)

MaxLen == 3          \* longest ids sequence a caller passes
MaxTokens == 3       \* longest hand-made payload, in varint-sized pieces
EstMaxIds == 5       \* largest num_ids given to the estimators
EstMaxUniverse == 20 \* largest universe_size given to the estimators
DetLen == 2          \* longest ids sequence of the determinism specification
MaxCont == 10          \* continuation bytes in front of a hand-made varint's last byte
MaxRamp == 12          \* deltas behind a declared count that is far too large

U32Max == U32(65535, 65535)

SeqsUpTo(S, n) == UNION {[1..k -> S] : k \in 0..n}

\* ids around the varint byte boundary and at the top of u32
IdVals == {SmallU32(0), SmallU32(1), SmallU32(2), SmallU32(128),
           U32(65534, 65535), U32Max}

Universes == {SmallU32(0), SmallU32(2), SmallU32(3), SmallU32(129), U32Max}

IdSeqs == SeqsUpTo(IdVals, MaxLen)

Precisions == {1024}

\* One byte appended to a payload
ExtraBytes == {0, 1, 127, 128, 255}

\* Dense runs: first id and length
RunStarts == {SmallU32(0), SmallU32(127), SmallU32(128), SmallU32(16383),
              U32(65000, 65535)}
RunLens == {1, 2, 3, 9, 10, 11, 100, 128}

\* start .. start + len, as the caller builds it
run(start, len) == [i \in 1..len |-> Add32(start, SmallU32(i - 1)).val]

\* Pieces of hand-made payloads: whole varints (0, 1, 2, 3), a zero with a
\* redundant group, 2^32, 2^32 - 1, and a group that promises a successor.
Tokens == { <<0>>, <<1>>, <<2>>, <<3>>, <<128, 0>>, <<128>>,
            <<128, 128, 128, 128, 16>>, <<255, 255, 255, 255, 15>> }

RECURSIVE Flatten(_)
Flatten(ss) == IF ss = <<>> THEN <<>> ELSE Head(ss) \o Flatten(Tail(ss))

Payloads == {Flatten(ts) : ts \in SeqsUpTo(Tokens, MaxTokens)}

DecodeUniverses == {SmallU32(0), SmallU32(3), U32Max}

\* The u64 values 2^n - 1 and 2^n
Ones(n) ==
    [i \in 1..4 |-> IF n >= 16 * i THEN LIMB - 1
                    ELSE IF n <= 16 * (i - 1) THEN 0
                    ELSE 2^(n - 16 * (i - 1)) - 1]
Pow2(n) ==
    [i \in 1..4 |-> IF 16 * (i - 1) <= n /\ n < 16 * i THEN 2^(n - 16 * (i - 1)) ELSE 0]

\* Every magnitude a u64 can have: all-ones and a single one, at each width
VarintValues == {Ones(n) : n \in 0..64} \cup {Pow2(n) : n \in 0..63}

\* What encode_varint finds in the buffer it appends to
VarintBufs == {<<>>, <<2>>, <<128>>}

\* n bytes that each promise a successor, all 0x80 or all 0xFF or the two in turn
ContBytes(n, a, b) == [i \in 1..n |-> IF i % 2 = 1 THEN a ELSE b]

\* Hand-made varints: continuation bytes, then a last byte or none, then the
\* start of whatever follows in the buffer or nothing
VarintBytes ==
    {ContBytes(n, a, b) \o last \o rest :
        n \in 0..MaxCont, a \in {128, 255}, b \in {128, 255},
        last \in {<<>>, <<0>>, <<1>>, <<127>>},
        rest \in {<<>>, <<0>>, <<255>>}}

----------------------------------------------------------------------------
(* The calls *)

NoCall == [op |-> "none"]

compress_call(ids, universe_size) ==
    [op |-> "compress_set", this |-> self, ids |-> ids,
     universe_size |-> universe_size,
     result |-> compress_set(self, ids, universe_size)]

decompress_call(compressed, universe_size) ==
    [op |-> "decompress_set", this |-> self, compressed |-> compressed,
     universe_size |-> universe_size,
     result |-> decompress_set(self, compressed, universe_size)]

\* compress_set(&ids, universe_size)
DoCompress(ids, universe_size) ==
    /\ call' = compress_call(ids, universe_size)
    /\ UNCHANGED <<self, overflow_checks>>

\* decompress_set(&compressed, universe_size)
DoDecompress(compressed, universe_size) ==
    /\ call' = decompress_call(compressed, universe_size)
    /\ UNCHANGED <<self, overflow_checks>>

\* estimate_size(num_ids, universe_size)
DoEstimateSize(num_ids, universe_size) ==
    /\ call' = [op |-> "estimate_size", this |-> self, num_ids |-> num_ids,
                universe_size |-> universe_size,
                result |-> estimate_size(self, num_ids, universe_size)]
    /\ UNCHANGED <<self, overflow_checks>>

\* bits_per_id(num_ids, universe_size)
DoBitsPerId(num_ids, universe_size) ==
    /\ call' = [op |-> "bits_per_id", this |-> self, num_ids |-> num_ids,
                universe_size |-> universe_size,
                result |-> bits_per_id(self, num_ids, universe_size)]
    /\ UNCHANGED <<self, overflow_checks>>

\* RocCompressor::with_precision(precision) replaces the caller's compressor
DoWithPrecision(precision) ==
    /\ self' = with_precision(precision)
    /\ UNCHANGED <<overflow_checks, call>>

\* RocCompressor::new() replaces the caller's compressor
DoNew ==
    /\ self' = new
    /\ UNCHANGED <<overflow_checks, call>>

\* What every specification starts from: a constructed compressor, a build
\* profile, and no call made yet.
Constructed ==
    /\ self = new
    /\ overflow_checks \in BOOLEAN
    /\ call = NoCall
    /\ held = NoCall
    /\ prev = NoCall

----------------------------------------------------------------------------
(* Spec: a caller that compresses a set, keeps the payload, and decodes it *)

\* start .. start + len with the tightest universe, start + len
RunInputs ==
    {[ids |-> run(start, len),
      universe_size |-> Add32(start, SmallU32(len)).val] :
        start \in RunStarts, len \in RunLens}

Init ==
    /\ Constructed
    /\ input \in [ids : IdSeqs, universe_size : Universes] \cup RunInputs

CompressSet ==
    /\ DoCompress(input.ids, input.universe_size)
    /\ held' = call'
    /\ UNCHANGED <<input, prev>>

HasPayload == held.op = "compress_set" /\ IsOk(held.result)

DecompressHeld ==
    /\ HasPayload
    /\ \E u \in Universes \cup {held.universe_size} :
          DoDecompress(held.result.value, u)
    /\ UNCHANGED <<input, held, prev>>

DecompressAppended ==
    /\ HasPayload
    /\ \E x \in ExtraBytes :
          DoDecompress(Append(held.result.value, x), held.universe_size)
    /\ UNCHANGED <<input, held, prev>>

Next ==
    \/ CompressSet
    \/ DecompressHeld
    \/ DecompressAppended

Spec == Init /\ [][Next]_vars

----------------------------------------------------------------------------
(* SpecTruncate: a caller that compresses a set and decodes the payload cut *)
(* short                                                                    *)

\* The payload just received, cut short: its first k bytes, k below its length
DecompressPrefix ==
    /\ HasPayload
    /\ call = held
    /\ \E k \in 0..(Len(held.result.value) - 1) :
          DoDecompress(SubSeq(held.result.value, 1, k), held.universe_size)
    /\ UNCHANGED <<input, held, prev>>

NextTruncate == CompressSet \/ DecompressPrefix

SpecTruncate == Init /\ [][NextTruncate]_vars

----------------------------------------------------------------------------
(* SpecDecode: decompress_set on payloads that no compressor vouches for *)

InitDecode ==
    /\ Constructed
    /\ input \in [compressed : Payloads, universe_size : DecodeUniverses]

DecompressBytes ==
    /\ DoDecompress(input.compressed, input.universe_size)
    /\ UNCHANGED <<input, held, prev>>

NextDecode == DecompressBytes

SpecDecode == InitDecode /\ [][NextDecode]_vars

----------------------------------------------------------------------------
(* SpecRecode: a caller that decodes a payload no compressor vouches for    *)
(* and compresses what it got                                               *)

RecompressDecoded ==
    /\ call.op = "decompress_set"
    /\ IsOk(call.result)
    /\ DoCompress(call.result.value, call.universe_size)
    /\ held' = call
    /\ UNCHANGED <<input, prev>>

NextRecode == DecompressBytes \/ RecompressDecoded

SpecRecode == InitDecode /\ [][NextRecode]_vars

----------------------------------------------------------------------------
(* SpecEst: the estimators *)

InitEst ==
    /\ Constructed
    /\ input \in [num_ids : 0..EstMaxIds, universe_size : 0..EstMaxUniverse]

EstimateSize ==
    /\ DoEstimateSize(input.num_ids, input.universe_size)
    /\ UNCHANGED <<input, held, prev>>

BitsPerId ==
    /\ DoBitsPerId(input.num_ids, input.universe_size)
    /\ UNCHANGED <<input, held, prev>>

NextEst == EstimateSize \/ BitsPerId

SpecEst == InitEst /\ [][NextEst]_vars

----------------------------------------------------------------------------
(* SpecDet: a caller that makes one call after another, now and then on a   *)
(* freshly constructed compressor, remembers one of its earlier calls       *)
(* (`prev`) and compares each new call with it                              *)

DetIdVals == {SmallU32(0), SmallU32(128)}
DetUniverses == {SmallU32(129)}
DetPayloads == {<<>>, <<0>>, <<1, 1>>, <<2, 1>>, <<2, 1, 1>>, <<2, 1, 0>>, <<128>>}

InitDet ==
    /\ Constructed
    /\ input = NoCall

DetNew ==
    /\ DoNew
    /\ UNCHANGED <<held, prev, input>>

DetWithPrecision ==
    /\ \E p \in Precisions : DoWithPrecision(p)
    /\ UNCHANGED <<held, prev, input>>

DetCompress ==
    /\ \E ids \in SeqsUpTo(DetIdVals, DetLen), u \in DetUniverses : DoCompress(ids, u)
    /\ prev' \in {prev, call}
    /\ UNCHANGED <<held, input>>

DetDecompress ==
    /\ \E compressed \in DetPayloads, u \in DetUniverses : DoDecompress(compressed, u)
    /\ prev' \in {prev, call}
    /\ UNCHANGED <<held, input>>

NextDet ==
    \/ DetNew
    \/ DetWithPrecision
    \/ DetCompress
    \/ DetDecompress

SpecDet == InitDet /\ [][NextDet]_vars

----------------------------------------------------------------------------
(* SpecLoop: one activation of decompress_set, a varint at a time.  `call`  *)
(* is the running activation: its arguments, its position and locals `st`, *)
(* and `decodes`, the number of decode_varint calls it has made.            *)

\* The largest count a varint can declare, 2^63 - 1
MaxCount == <<255, 255, 255, 255, 255, 255, 255, 255, 127>>

\* first id 0 and n - 1 deltas of 1
Ramp(n) == [i \in 1..n |-> IF i = 1 THEN 0 ELSE 1]

LoopPayloads ==
    Payloads \cup {MaxCount \o p : p \in Payloads}
             \cup {MaxCount \o Ramp(n) : n \in 1..MaxRamp}

InitLoop ==
    /\ Constructed
    /\ input = NoCall

Running == call.op = "decompress_set" /\ "st" \in DOMAIN call

\* The call, up to the decoded count
EnterDecompress ==
    /\ call = NoCall
    /\ \E compressed \in LoopPayloads, universe_size \in DecodeUniverses :
          call' = [op |-> "decompress_set", this |-> self,
                   compressed |-> compressed,
                   universe_size |-> universe_size,
                   st |-> decode_count(compressed),
                   decodes |-> IF compressed = <<>> THEN 0 ELSE 1]
    /\ UNCHANGED <<self, overflow_checks, input, held, prev>>

\* The first id
ReadFirst ==
    /\ Running
    /\ ~call.st.done
    /\ call.st.i = 0
    /\ call' = [call EXCEPT
                   !.st = decode_first(call.compressed, call.universe_size, call.st),
                   !.decodes = call.decodes + 1]
    /\ UNCHANGED <<self, overflow_checks, input, held, prev>>

\* One turn of the delta loop, or its exit and the return
LoopTurn ==
    /\ Running
    /\ ~call.st.done
    /\ call.st.i >= 1
    /\ LET num_ids == declared_count(call.compressed)
       IN  call' = [call EXCEPT
                      !.st = decode_step(call.compressed, call.universe_size,
                                         num_ids, call.st),
                      !.decodes = IF Ge64(SmallU64(call.st.i), num_ids)
                                  THEN call.decodes
                                  ELSE call.decodes + 1]
    /\ UNCHANGED <<self, overflow_checks, input, held, prev>>

NextLoop == EnterDecompress \/ ReadFirst \/ LoopTurn

SpecLoop == InitLoop /\ [][NextLoop]_vars

----------------------------------------------------------------------------
(* SpecVarint: encode_varint(value, &mut buf), then decode_varint on the    *)
(* bytes it appended, as decompress_set reads them: &buf[offset..]          *)

InitVarint ==
    /\ Constructed
    /\ input \in [value : VarintValues, buf : VarintBufs]

EncodeVarint ==
    /\ call' = [op |-> "encode_varint", value |-> input.value, buf |-> input.buf,
                result |-> encode_varint(input.value, input.buf)]
    /\ held' = call'
    /\ UNCHANGED <<self, overflow_checks, input, prev>>

DecodeEmitted ==
    /\ held.op = "encode_varint"
    /\ LET emitted == slice_from(held.result, Len(held.buf))
       IN  call' = [op |-> "decode_varint", buf |-> emitted,
                    result |-> decode_varint(emitted)]
    /\ UNCHANGED <<self, overflow_checks, input, held, prev>>

NextVarint == EncodeVarint \/ DecodeEmitted

SpecVarint == InitVarint /\ [][NextVarint]_vars

----------------------------------------------------------------------------
(* SpecVarintDecode: decode_varint on bytes that no encoder vouches for *)

InitVarintDecode ==
    /\ Constructed
    /\ input \in [buf : VarintBytes]

DecodeVarint ==
    /\ call' = [op |-> "decode_varint", buf |-> input.buf,
                result |-> decode_varint(input.buf)]
    /\ UNCHANGED <<self, overflow_checks, input, held, prev>>

NextVarintDecode == DecodeVarint

SpecVarintDecode == InitVarintDecode /\ [][NextVarintDecode]_vars

----------------------------------------------------------------------------
(* The format and the set properties, stated without the codec's loops *)

StrictlyIncreasing(ids) == \A i \in 1..Len(ids) : \A j \in (i+1)..Len(ids) : Lt32(ids[i], ids[j])

AllBelow(ids, universe_size) == \A i \in 1..Len(ids) : Lt32(ids[i], universe_size)

\* Bits 7k .. 7k+6 of a u64, read off its limbs
Group(v, k) ==
    LET q == (7 * k) \div 16
        r == (7 * k) % 16
        low == v[q + 1] \div 2^r
        high == IF q + 2 <= 4 THEN (v[q + 2] % 128) * 2^(16 - r) ELSE 0
    IN  (low + high) % 128

\* How many 7-bit groups v needs: one more than the index of its last non-zero group
NGroups(v) ==
    LET used == {k \in 0..9 : Group(v, k) # 0}
    IN  IF used = {} THEN 1 ELSE 1 + CHOOSE k \in used : \A j \in used : j <= k

\* The varint of v: its groups, low group first, every byte but the last flagged
VarintOf(v) ==
    [i \in 1..NGroups(v) |-> Group(v, i - 1) + (IF i < NGroups(v) THEN 128 ELSE 0)]

\* The gap d with ids[i-1] + d = ids[i]
Gap(ids, i) == CHOOSE d \in {Sub32(ids[i], ids[i - 1])} : Add32(ids[i - 1], d).val = ids[i]

\* varint(gap) for the elements lo..hi of ids, in order   (1-based, lo >= 2)
RECURSIVE GapVarints(_, _, _)
GapVarints(ids, lo, hi) ==
    IF hi < lo THEN <<>>
    ELSE IF hi = lo THEN VarintOf(AsU64(Gap(ids, lo)))
    ELSE LET mid == (lo + hi) \div 2
         IN  GapVarints(ids, lo, mid) \o GapVarints(ids, mid + 1, hi)

WireFormat(ids) ==
    VarintOf(SmallU64(Len(ids))) \o VarintOf(AsU64(ids[1])) \o GapVarints(ids, 2, Len(ids))

\* s, s+1, ..., s+n-1 without wrapping
IsRun(ids) ==
    /\ Len(ids) >= 1
    /\ \A i \in 2..Len(ids) :
          LET next == Add32(ids[i - 1], SmallU32(1))
          IN  ~next.overflow /\ ids[i] = next.val

Compressed == held.op = "compress_set"
Decoded == call.op = "decompress_set"
DecodedHeld ==
    /\ Decoded
    /\ HasPayload
    /\ call.compressed = held.result.value

----------------------------------------------------------------------------
(* Properties *)

\* C1 (roundtrip): compress_set succeeds on every strictly increasing ids below
\* universe_size, and decompress_set of its output under the same universe_size
\* returns exactly ids.
RoundTrip ==
    /\ (Compressed /\ StrictlyIncreasing(held.ids)
            /\ AllBelow(held.ids, held.universe_size))
          => IsOk(held.result)
    /\ (DecodedHeld /\ call.universe_size = held.universe_size)
          => call.result = Ok(held.ids)

\* A three-element set from 0 to 2^32 - 2 has been compressed and decoded back.
RoundTripWitness ==
    /\ DecodedHeld
    /\ call.universe_size = held.universe_size
    /\ Len(held.ids) = 3
    /\ held.ids[1] = SmallU32(0)
    /\ held.ids[3] = U32(65534, 65535)
    /\ IsOk(call.result)

\* C2 (validation): compress_set returns a byte buffer exactly when ids is
\* strictly increasing and every id is below universe_size; otherwise it fails
\* with InvalidInput and returns no bytes.
AcceptsExactlyValidSets ==
    Compressed =>
        IF StrictlyIncreasing(held.ids) /\ AllBelow(held.ids, held.universe_size)
        THEN IsOk(held.result)
        ELSE /\ IsErr(held.result, "InvalidInput")
             /\ "value" \notin DOMAIN held.result

\* A sorted pair whose larger id equals universe_size has been rejected.
AcceptsExactlyValidSetsWitness ==
    /\ Compressed
    /\ Len(held.ids) = 2
    /\ StrictlyIncreasing(held.ids)
    /\ held.ids[2] = held.universe_size
    /\ IsErr(held.result, "InvalidInput")

\* C3 (trailing garbage): one extra byte appended to any buffer compress_set
\* produced, the empty one included, makes decompress_set fail with
\* DecompressionFailed.
TrailingGarbageDetected ==
    (Decoded /\ HasPayload
        /\ \E x \in 0..255 : call.compressed = Append(held.result.value, x))
      => IsErr(call.result, "DecompressionFailed")

\* C4 (universe mismatch): decoding a compressor's payload under a universe
\* that some element of the set does not fit fails with DecompressionFailed.
UniverseMismatchDetected ==
    (DecodedHeld /\ \E i \in 1..Len(held.ids) : Ge32(held.ids[i], call.universe_size))
      => IsErr(call.result, "DecompressionFailed")

\* The first id fits the decode-time universe and a later one does not.
UniverseMismatchWitness ==
    /\ DecodedHeld
    /\ Len(held.ids) >= 2
    /\ Lt32(held.ids[1], call.universe_size)
    /\ Ge32(held.ids[Len(held.ids)], call.universe_size)
    /\ IsErr(call.result, "DecompressionFailed")

\* C5 (decoded sets are sets): whatever the bytes, a sequence decompress_set
\* returns is strictly increasing and entirely below universe_size.
DecodedIsValidSet ==
    (Decoded /\ IsOk(call.result))
      => /\ StrictlyIncreasing(call.result.value)
         /\ AllBelow(call.result.value, call.universe_size)

\* C6 (empty set): compress_set of no ids returns no bytes and decompress_set
\* of no bytes returns no ids, for every universe_size, 0 included.
EmptySetIdentity ==
    /\ (Compressed /\ held.ids = <<>>) => held.result = Ok(<<>>)
    /\ (Decoded /\ call.compressed = <<>>) => call.result = Ok(<<>>)

\* The empty set went through both directions with universe_size = 0.
EmptySetWitness ==
    /\ Compressed
    /\ held.ids = <<>>
    /\ held.universe_size = SmallU32(0)
    /\ Decoded
    /\ call.compressed = <<>>
    /\ call.universe_size = SmallU32(0)

\* C7 (wire format): the output for an accepted non-empty ids is exactly
\* varint(len) ++ varint(ids[0]) ++ varint(gap_1) ++ ... ++ varint(gap_{n-1}),
\* every gap at least 1, and nothing else.
WireFormatExact ==
    (HasPayload /\ held.ids # <<>>)
      => /\ held.result.value = WireFormat(held.ids)
         /\ \A i \in 2..Len(held.ids) : Gap(held.ids, i) # SmallU32(0)

\* A payload with a one-byte, a two-byte and a five-byte varint in it.
WireFormatWitness ==
    /\ HasPayload
    /\ held.ids = <<SmallU32(0), SmallU32(128), U32(65534, 65535)>>
    /\ Len(held.result.value) = 9

\* C10 (dense runs): a run s, s+1, ..., s+n-1 compresses to
\* len(varint(n)) + len(varint(s)) + (n - 1) bytes, every gap being the single
\* byte 1: under 4n bytes for the 100 ids from 0, under 2.5 bytes per id from
\* n = 10 on.
DenseRunCompact ==
    (HasPayload /\ IsRun(held.ids))
      => LET n == Len(held.ids)
             header == NGroups(SmallU64(n)) + NGroups(AsU64(held.ids[1]))
             bytes == held.result.value
         IN  /\ Len(bytes) = header + (n - 1)
             /\ \A j \in (header + 1)..Len(bytes) : bytes[j] = 1
             /\ (n = 100 /\ held.ids[1] = SmallU32(0)) => Len(bytes) < 4 * n
             /\ n >= 10 => 2 * Len(bytes) < 5 * n

\* The 100 ids from 0 have been compressed.
DenseRunWitness ==
    /\ HasPayload
    /\ IsRun(held.ids)
    /\ Len(held.ids) = 100
    /\ held.ids[1] = SmallU32(0)

\* C8 (determinism, statelessness): a call with the arguments of an earlier
\* call returns the same result, whatever calls were made in between and
\* whatever compressor (whatever ans_precision) each was made on; and no
\* operation changes the compressor: only constructing one does.
SameArguments(a, b) ==
    /\ a.op = b.op
    /\ a.op \in {"compress_set", "decompress_set"}
    /\ a.universe_size = b.universe_size
    /\ IF a.op = "compress_set" THEN a.ids = b.ids ELSE a.compressed = b.compressed

SameResult == SameArguments(prev, call) => prev.result = call.result

Deterministic ==
    /\ []SameResult
    /\ [][(DetCompress \/ DetDecompress) => self' = self]_vars

\* The same non-empty set was compressed twice, on compressors of different
\* ans_precision.
DeterministicWitness ==
    /\ SameArguments(prev, call)
    /\ call.op = "compress_set"
    /\ Len(call.ids) = 2
    /\ IsOk(call.result)
    /\ prev.this.ans_precision # call.this.ans_precision

EstimateCalled == call.op = "estimate_size"
BitsCalled == call.op = "bits_per_id"

Emitted == slice_from(held.result, Len(held.buf))

\* C11 (varint losslessness): for every u64 v, encode_varint emits 1 to 10
\* bytes, every byte but the last with the high bit set and the last with it
\* clear, and decode_varint on those bytes returns (v, number of bytes emitted).
VarintLossless ==
    /\ held.op = "encode_varint" =>
          /\ Len(Emitted) \in 1..10
          /\ SubSeq(held.result, 1, Len(held.buf)) = held.buf
          /\ \A i \in 1..Len(Emitted) : (Emitted[i] >= 128) <=> (i < Len(Emitted))
    /\ (held.op = "encode_varint" /\ call.op = "decode_varint" /\ call.buf = Emitted)
          => call.result = Ok(<<held.value, Len(Emitted)>>)

\* Where the varint at the front of buf ends: the 1-based index of its first
\* byte with the high bit clear, 0 when there is none
Terminator(buf) ==
    LET ends == {i \in 1..Len(buf) : buf[i] < 128}
    IN  IF ends = {} THEN 0 ELSE CHOOSE i \in ends : \A j \in ends : i <= j

\* C12 (decode_varint): it fails with DecompressionFailed when the buffer ends
\* before a byte with the high bit clear, or when a byte would have to be read
\* at a shift above 56 (a tenth byte); otherwise it returns the value whose
\* 7-bit groups are the low seven bits of the bytes up to the terminating one,
\* low group first, and the index of the terminating byte plus one, whatever
\* follows that byte.
DecodeVarintExact ==
    call.op = "decode_varint" =>
        LET t == Terminator(call.buf)
        IN  IF t = 0 \/ t > 9
            THEN IsErr(call.result, "DecompressionFailed")
            ELSE /\ IsOk(call.result)
                 /\ call.result.value[2] = t
                 /\ \A k \in 0..9 :
                       Group(call.result.value[1], k)
                         = (IF k < t THEN call.buf[k + 1] % 128 ELSE 0)

\* A nine-byte varint with one more byte behind it has been decoded.
DecodeVarintWitness ==
    /\ call.op = "decode_varint"
    /\ Len(call.buf) = 10
    /\ Terminator(call.buf) = 9
    /\ IsOk(call.result)
    /\ Group(call.result.value[1], 8) = 127

\* C13 (total, typed failure): decompress_set returns either a complete
\* sequence or DecompressionFailed, whatever the bytes and the universe; it
\* never aborts, and the u32 sum previous + delta never wraps unnoticed, so no
\* returned id lies below the one before it.
TotalTypedFailure ==
    Decoded =>
        /\ IsOk(call.result) \/ IsErr(call.result, "DecompressionFailed")
        /\ IsOk(call.result) =>
              \A i \in 2..Len(call.result.value) :
                  Le32(call.result.value[i - 1], call.result.value[i])

\* The last call decoded a proper prefix of the held, non-empty payload under
\* the universe it was compressed for.
DecodedPrefix ==
    /\ Decoded
    /\ HasPayload
    /\ call.universe_size = held.universe_size
    /\ Len(call.compressed) < Len(held.result.value)
    /\ call.compressed = SubSeq(held.result.value, 1, Len(call.compressed))

\* C14 (truncation): every non-empty proper prefix of a non-empty payload that
\* compress_set produced fails to decode with DecompressionFailed; the
\* zero-length prefix decodes as the empty set.
TruncationDetected ==
    DecodedPrefix =>
        IF call.compressed = <<>>
        THEN call.result = Ok(<<>>)
        ELSE IsErr(call.result, "DecompressionFailed")

\* A payload of three ids has been cut inside its last varint, after a byte
\* that promises a successor, and the cut payload has been refused.
TruncationWitness ==
    /\ DecodedPrefix
    /\ Len(held.ids) = 3
    /\ Len(call.compressed) = Len(held.result.value) - 1
    /\ call.compressed[Len(call.compressed)] >= 128
    /\ IsErr(call.result, "DecompressionFailed")

\* C15 (termination): decompress_set returns on every input, because offset is
\* a variant of its loop.  While it runs, 0 <= offset <= len(input); every step
\* that reads an id or a delta moves offset forward by at least one byte or
\* makes the function return; and it makes at most len(input) + 1 varint
\* decodes, however large the declared count.
DecompressTerminates ==
    /\ [](Running =>
            /\ ~call.st.done => call.st.offset \in 0..Len(call.compressed)
            /\ call.decodes <= Len(call.compressed) + 1)
    /\ [][(ReadFirst \/ LoopTurn) =>
            (call'.st.done \/ call'.st.offset >= call.st.offset + 1)]_vars

\* A payload declaring 2^63 - 1 ids and holding MaxRamp of them has been
\* refused after one decode per varint and one more at the end of the data.
DecompressTerminatesWitness ==
    /\ Running
    /\ call.st.done
    /\ call.decodes = MaxRamp + 2
    /\ call.compressed = MaxCount \o Ramp(MaxRamp)
    /\ IsErr(call.st.result, "DecompressionFailed")

\* C16 (canonical decoding): whenever decompress_set(b, U) returns ids,
\* compress_set(ids, U) succeeds and returns exactly b, so that every set has
\* one accepted encoding.
CanonicalDecoding ==
    (/\ call.op = "compress_set"
     /\ held.op = "decompress_set"
     /\ IsOk(held.result)
     /\ call.ids = held.result.value
     /\ call.universe_size = held.universe_size)
      => call.result = Ok(held.compressed)

=============================================================================
